---------------------------- MODULE Spec2Model ----------------------------
(***************************************************************************)
(* A model of CNTK's CompositeFunction (CompositeFunction.h): the graph    *)
(* of primitive Functions, the recursive Traverse with its two clients     *)
(* Collect and DetermineInputs, the composite's owned Function set, the    *)
(* Forward/Backward calls with the cached network and the timestamps of    *)
(* CNTKBackPropState, and the counter of NextAutoGeneratedDynamicAxis.     *)
(***************************************************************************)
EXTENDS Integers, Sequences, FiniteSets, TLC

\* ------------------------------------------------------------------ bounds
\* Number of primitive Functions in the pool the graphs are drawn from.
MaxNodes == 3
\* Total number of input slots of a graph (sum of the lengths of all the
\* m_inputs vectors).
MaxTotalInputs == 4
\* Forward calls made on one composite.
MaxForwards == 3
\* Threads calling NextAutoGeneratedDynamicAxis.
MaxThreads == 2
\* Calls of NextAutoGeneratedDynamicAxis followed step by step.
MaxAxisCalls == 3
\* Times the count of calls made passes the range of the counter.
MaxWraps == 1
\* Characters of an axis name.
MaxNameLen == 2
\* Axes of a dynamic-axes list.
MaxAxes == 2

Nodes == 1..MaxNodes

\* --------------------------------------------------------------- Variables
\* A Variable is compared by identity: its kind, its owner (Outputs only)
\* and an id.
OutputVar(n, i) == [kind |-> "Output", owner |-> n, id |-> i]
LeafVar(k, i) == [kind |-> k, owner |-> 0, id |-> i]

x == LeafVar("Input", 1)
p == LeafVar("Placeholder", 1)
q == LeafVar("Placeholder", 2)

\* The non-Output Variables the graphs handed to Traverse list.
Leaves == {x, p}
\* Those the graphs a composite is created on list.
Placeholders == {p, q}
CompositeLeaves == {x} \cup Placeholders

\* Function n's Outputs: the last Function of the pool has two of them, the
\* others one.
OutputsOf(n) == {OutputVar(n, i) : i \in (IF n = MaxNodes THEN {1, 2} ELSE {1})}

\* Variable::IsOutput and Variable::Owner, as Traverse and its clients use
\* them.
IsOutput(v) == v.kind = "Output"
Owner(v) == v.owner

\* ------------------------------------------------------------------ graphs
\* All sequences over S of length at most n.
RECURSIVE SeqsUpTo(_, _)
SeqsUpTo(S, n) ==
    IF n = 0 THEN {<< >>}
    ELSE LET shorter == SeqsUpTo(S, n - 1)
         IN  shorter \cup {Append(s, v) : s \in {t \in shorter : Len(t) = n - 1}, v \in S}

\* The Variables Function n may consume in an acyclic graph: the leaves and
\* the Outputs of the Functions after it.  Every finite DAG is, up to a
\* renaming of its Functions along a topological order, of this form.
AcyclicVarsFor(L, n) == L \cup UNION {OutputsOf(m) : m \in {k \in Nodes : k > n}}

\* The acyclic graphs over Functions n..MaxNodes with leaves L and at most
\* `budget' input slots, each a sequence of input lists (that of n first).
RECURSIVE AcyclicGraphsFrom(_, _, _)
AcyclicGraphsFrom(L, n, budget) ==
    IF n > MaxNodes THEN {<< >>}
    ELSE UNION {{<<s>> \o rest : rest \in AcyclicGraphsFrom(L, n + 1, budget - Len(s))} :
                s \in SeqsUpTo(AcyclicVarsFor(L, n), budget)}

\* All graphs over Functions n..MaxNodes with leaves L and at most `budget'
\* input slots: a Function may consume any Output, its own included, so the
\* graphs with cycles are among them.
RECURSIVE GraphsFrom(_, _, _)
GraphsFrom(L, n, budget) ==
    IF n > MaxNodes THEN {<< >>}
    ELSE UNION {{<<s>> \o rest : rest \in GraphsFrom(L, n + 1, budget - Len(s))} :
                s \in SeqsUpTo(L \cup UNION {OutputsOf(m) : m \in Nodes}, budget)}

VARIABLES
    funcInputs,         \* funcInputs[f]: Function f's Inputs(), in listed order
    pc,                 \* "idle", "running" (inside Traverse) or "done" (returned)
    op,                 \* which entry point was called
    rootFunction,       \* the rootFunction argument of the outermost call
    stack,              \* Traverse's activation records, innermost last
    visitedFunctions,   \* the set Traverse is handed by reference
    inputs,             \* DetermineInputs' vector `inputs'
    uniqueInputs,       \* DetermineInputs' set `uniqueInputs'
    calls,              \* history: the Functions the functor was invoked on
    visited0,           \* history: visitedFunctions when the call began
    m_rootFunction,             \* the composite's RootFunction(), 0 before Create
    m_allPrimitiveFunctions,    \* the composite's owned set
    placeholderReplacements,    \* the map of the last replacement, as pairs
    replacedPlaceholders,       \* the placeholders the last replacement replaced
    ownedBefore,                \* history: the owned set before the last replacement
    handed,                     \* history: the map and the set of replaced placeholders
                                \* OnPlaceholdersReplaced was last called with
    m_computationNetwork,       \* "null" or "built": the cached network
    m_currentBackpropRoots,     \* the backpropRoots of the most recent Forward
    m_currentOutputs,           \* the outputs of the most recent Forward
    m_networkMatricesAllocated, \* whether the cached network's storage is laid out
    timeStamps,                 \* timeStamps[v]: the evaluation timestamp of root v
    backPropStates,             \* the BackPropStates Forward has returned, in order
    advancedSince,              \* history: advancedSince[i] iff a later Forward
                                \* advanced a root captured in backPropStates[i]
    lastForward,                \* history: the most recent Forward call
    lastBackward,               \* history: the most recent Backward call
    m_variableToNodeMap,        \* the Variables the cached network has a node for
    m_lastRecordedParameterValueTimeStamps, \* parameter timestamps last pushed, as pairs
    networkDevice,              \* the device the cached network was built for
    lastFailure,                \* history: the most recent call rejected on its arguments
    s_nextAutoGeneratedDynamicAxis, \* the static atomic counter
    tpc,                        \* tpc[t]: "idle", or "fetched" between the
                                \* increment and the return of thread t's call
    fetched,                    \* fetched[t]: the value thread t's s_next++ gave
    ticket,                     \* history: ticket[t]: how many increments preceded it
    handedOut,                  \* history: how many increments have been made
    names,                      \* history: the calls returned, [k, name] in order
    InternalDefaultDynamicAxisName, \* the static const of that name
    InternalNoSequenceAxisName, \* the static const of that name
    dynamicAxes,                \* the list handed to InternalDynamicAxisNameFromDynamicAxes
    hpc,                        \* "start", "named" or "parsed": the helpers applied so far
    internalDynamicAxisName,    \* what InternalDynamicAxisNameFromDynamicAxes gave
    inputVarDynamicAxes         \* what DynamicAxesFromInternalDynamicAxisName gave

travVars == <<pc, op, rootFunction, stack, visitedFunctions, inputs, uniqueInputs,
              calls, visited0>>
compVars == <<m_rootFunction, m_allPrimitiveFunctions, placeholderReplacements,
              replacedPlaceholders, ownedBefore, handed>>
fwdVars == <<m_computationNetwork, m_currentBackpropRoots, m_currentOutputs,
             m_networkMatricesAllocated, timeStamps, backPropStates, advancedSince,
             lastForward, lastBackward, m_variableToNodeMap,
             m_lastRecordedParameterValueTimeStamps, networkDevice, lastFailure>>
nameVars == <<InternalDefaultDynamicAxisName, InternalNoSequenceAxisName, dynamicAxes,
              hpc, internalDynamicAxisName, inputVarDynamicAxes>>
axisVars == <<s_nextAutoGeneratedDynamicAxis, tpc, fetched, ticket, handedOut, names,
              nameVars>>
vars == <<funcInputs, travVars, compVars, fwdVars, axisVars>>

\* ---------------------------------------------------------------- Traverse
\* The lambda without its uniqueInputs test.
RECURSIVE DetermineInputsFunctorNoDedupe(_, _, _)
DetermineInputsFunctorNoDedupe(functionInputs, i, acc) ==
    IF i > Len(functionInputs) THEN acc
    ELSE LET input == functionInputs[i]
         IN  IF ~IsOutput(input)
             THEN DetermineInputsFunctorNoDedupe(functionInputs, i + 1,
                      [inputs |-> Append(acc.inputs, input),
                       uniqueInputs |-> acc.uniqueInputs \cup {input}])
             ELSE DetermineInputsFunctorNoDedupe(functionInputs, i + 1, acc)

\* The lambda DetermineInputs hands to Traverse: appends every non-Output
\* input of f not yet in uniqueInputs to inputs, in listed order.
RECURSIVE DetermineInputsFunctor(_, _, _)
DetermineInputsFunctor(functionInputs, i, acc) ==
    IF i > Len(functionInputs) THEN acc
    ELSE LET input == functionInputs[i]
         IN  IF ~IsOutput(input) /\ input \notin acc.uniqueInputs
             THEN DetermineInputsFunctor(functionInputs, i + 1,
                      [inputs |-> Append(acc.inputs, input),
                       uniqueInputs |-> acc.uniqueInputs \cup {input}])
             ELSE DetermineInputsFunctor(functionInputs, i + 1, acc)

\* functor(f): Collect's lambda does nothing; DetermineInputs' lambda scans
\* f's inputs.  `calls' records the invocation itself.
Functor(g, c, f) ==
    LET acc == IF c.op = "DetermineInputs"
               THEN DetermineInputsFunctor(g[f], 1,
                        [inputs |-> c.inputs, uniqueInputs |-> c.uniqueInputs])
               ELSE [inputs |-> c.inputs, uniqueInputs |-> c.uniqueInputs]
    IN  [c EXCEPT !.inputs = acc.inputs, !.uniqueInputs = acc.uniqueInputs,
                  !.calls = Append(c.calls, f)]

\* The entry without the insert into visitedFunctions.
TraverseEnterNoInsert(g, c, f) ==
    [Functor(g, c, f) EXCEPT !.stack = Append(c.stack, [f |-> f, i |-> 1])]

\* Entry of Traverse(f, visitedFunctions, functor): insert f, invoke the
\* functor, and start the loop over f's inputs at the first one.

TraverseEnter(g, c, f) ==
    LET c1 == [c EXCEPT !.visitedFunctions = c.visitedFunctions \cup {f}]
    IN  [Functor(g, c1, f) EXCEPT !.stack = Append(c.stack, [f |-> f, i |-> 1])]

\* The loop without the visitedFunctions test: every Output input recurses.
TraverseStepNoCheck(g, c) ==
    LET top == c.stack[Len(c.stack)]
        rest == SubSeq(c.stack, 1, Len(c.stack) - 1)
    IN  IF top.i > Len(g[top.f])
        THEN [c EXCEPT !.stack = rest]
        ELSE LET rootInput == g[top.f][top.i]
                 c1 == [c EXCEPT !.stack = Append(rest, [top EXCEPT !.i = top.i + 1])]
             IN  IF IsOutput(rootInput)
                 THEN TraverseEnter(g, c1, Owner(rootInput))
                 ELSE c1

\* The loop that never moves on to the next input.
TraverseStepNoAdvance(g, c) ==
    LET top == c.stack[Len(c.stack)]
    IN  IF top.i > Len(g[top.f])
        THEN [c EXCEPT !.stack = SubSeq(c.stack, 1, Len(c.stack) - 1)]
        ELSE LET rootInput == g[top.f][top.i]
             IN  IF IsOutput(rootInput) /\ Owner(rootInput) \notin c.visitedFunctions
                 THEN TraverseEnter(g, c, Owner(rootInput))
                 ELSE c

\* The loop running over the inputs from the last to the first.
TraverseStepReverse(g, c) ==
    LET top == c.stack[Len(c.stack)]
        rest == SubSeq(c.stack, 1, Len(c.stack) - 1)
    IN  IF top.i > Len(g[top.f])
        THEN [c EXCEPT !.stack = rest]
        ELSE LET rootInput == g[top.f][Len(g[top.f]) + 1 - top.i]
                 c1 == [c EXCEPT !.stack = Append(rest, [top EXCEPT !.i = top.i + 1])]
             IN  IF IsOutput(rootInput) /\ Owner(rootInput) \notin c.visitedFunctions
                 THEN TraverseEnter(g, c1, Owner(rootInput))
                 ELSE c1

\* One iteration of the innermost activation's loop: past the last input the
\* activation returns; otherwise the input is examined and, when it is an
\* Output whose Owner is not in visitedFunctions, Traverse is called on it.
TraverseStep(g, c) ==
    LET top == c.stack[Len(c.stack)]
        rest == SubSeq(c.stack, 1, Len(c.stack) - 1)
    IN  IF top.i > Len(g[top.f])
        THEN [c EXCEPT !.stack = rest]
        ELSE LET rootInput == g[top.f][top.i]
                 c1 == [c EXCEPT !.stack = Append(rest, [top EXCEPT !.i = top.i + 1])]
             IN  IF IsOutput(rootInput) /\ Owner(rootInput) \notin c.visitedFunctions
                 THEN TraverseEnter(g, c1, Owner(rootInput))
                 ELSE c1

\* The whole call, from its entry to the return of the outermost activation.
RECURSIVE TraverseRun(_, _)
TraverseRun(g, c) == IF c.stack = << >> THEN c ELSE TraverseRun(g, TraverseStep(g, c))

Config(o, visited) ==
    [op |-> o, stack |-> << >>, visitedFunctions |-> visited, inputs |-> << >>,
     uniqueInputs |-> {}, calls |-> << >>]

\* ----------------------------------------------------------------- actions
Current ==
    [op |-> op, stack |-> stack, visitedFunctions |-> visitedFunctions,
     inputs |-> inputs, uniqueInputs |-> uniqueInputs, calls |-> calls]

Install(c) ==
    /\ stack' = c.stack
    /\ visitedFunctions' = c.visitedFunctions
    /\ inputs' = c.inputs
    /\ uniqueInputs' = c.uniqueInputs
    /\ calls' = c.calls

\* A caller starts one of the entry points on a root with its own set.
Call(o, f, visited) ==
    /\ pc = "idle"
    /\ pc' = "running"
    /\ op' = o
    /\ rootFunction' = f
    /\ visited0' = visited
    /\ Install(TraverseEnter(funcInputs, Config(o, visited), f))
    /\ UNCHANGED <<funcInputs, compVars, fwdVars, axisVars>>

\* Traverse(rootFunction, functor): the overload that makes the fresh set.
CallTraverse == \E f \in Nodes : Call("Traverse", f, {})
\* Traverse(rootFunction, visitedFunctions, functor) on a set of the caller's.
CallTraverseVisited == \E f \in Nodes, visited \in SUBSET Nodes : Call("Traverse", f, visited)
CallCollect == \E f \in Nodes : Call("Collect", f, {})
CallDetermineInputs == \E f \in Nodes : Call("DetermineInputs", f, {})

\* The running call takes one step; with the return of its outermost
\* activation the call is over.
Step ==
    /\ pc = "running"
    /\ LET c == TraverseStep(funcInputs, Current)
       IN  /\ Install(c)
           /\ pc' = IF c.stack = << >> THEN "done" ELSE "running"
    /\ UNCHANGED <<funcInputs, op, rootFunction, visited0, compVars, fwdVars, axisVars>>

\* No call of Traverse has been made.
TraverseIdle ==
    /\ pc = "idle"
    /\ op = "none"
    /\ rootFunction = 0
    /\ stack = << >>
    /\ visitedFunctions = {}
    /\ inputs = << >>
    /\ uniqueInputs = {}
    /\ calls = << >>
    /\ visited0 = {}

\* No composite has been created.
NoComposite ==
    /\ m_rootFunction = 0
    /\ m_allPrimitiveFunctions = {}
    /\ placeholderReplacements = {}
    /\ replacedPlaceholders = {}
    /\ ownedBefore = {}
    /\ handed = [placeholderReplacements |-> {}, replacedPlaceholders |-> {}]

\* The sets a composite can be asked for: the Outputs of its root.
RootOutputs == OutputsOf(MaxNodes)

\* The composite as its constructor leaves it: no network, nothing recorded,
\* m_networkMatricesAllocated(false); no Forward or Backward has been called.
NoForward ==
    /\ m_computationNetwork = "null"
    /\ m_currentBackpropRoots = {}
    /\ m_currentOutputs = {}
    /\ m_networkMatricesAllocated = FALSE
    /\ timeStamps = [v \in RootOutputs |-> 0]
    /\ backPropStates = << >>
    /\ advancedSince = << >>
    /\ lastForward = [n |-> 0, backpropRoots |-> {}, outputs |-> {}, how |-> "none",
                      hadNetwork |-> FALSE, prevBackpropRoots |-> {}, prevOutputs |-> {}]
    /\ lastBackward = [state |-> 0, result |-> "none", gradients |-> {},
                       advanced |-> FALSE, fresh |-> FALSE]
    /\ m_variableToNodeMap = {}
    /\ m_lastRecordedParameterValueTimeStamps = {}
    /\ networkDevice = "none"
    /\ lastFailure = [call |-> "none", error |-> "none"]

\* The width of unsigned int, the type of the atomic counter.
UnsignedIntBits == 32

\* Numbers beyond the checker's integers are written as sequences of 16-bit
\* limbs, most significant first; an unsigned int is UnsignedIntLimbs limbs,
\* and arithmetic on a fixed number of limbs drops the carry out of the top.
LimbBase == 2 ^ 16
UnsignedIntLimbs == UnsignedIntBits \div 16
\* The width of the history counts, which do not wrap in the runs explored.
CountLimbs == UnsignedIntLimbs + 1

Zero(w) == [i \in 1..w |-> 0]
One(w) == [i \in 1..w |-> IF i = w THEN 1 ELSE 0]
\* The largest value of w limbs.
AllOnes(w) == [i \in 1..w |-> LimbBase - 1]
\* a at width w: zero limbs added in front, or the top limbs cut off.
Resize(a, w) ==
    [i \in 1..w |-> IF i + Len(a) - w >= 1 THEN a[i + Len(a) - w] ELSE 0]

RECURSIVE AddFrom(_, _, _, _)
AddFrom(a, b, i, carry) ==
    IF i = 0 THEN << >>
    ELSE LET sum == a[i] + b[i] + carry
         IN  Append(AddFrom(a, b, i - 1, sum \div LimbBase), sum % LimbBase)
\* a + b for a and b of one width, modulo that width.
Add(a, b) == AddFrom(a, b, Len(a), 0)

RECURSIVE DivTen(_, _, _, _)
DivTen(a, i, rem, quot) ==
    IF i > Len(a) THEN [quot |-> quot, rem |-> rem]
    ELSE LET cur == rem * LimbBase + a[i]
         IN  DivTen(a, i + 1, cur % 10, Append(quot, cur \div 10))

Threads == 1..MaxThreads

\* The static counter as the program starts, no call made.
NoAxisCall ==
    /\ s_nextAutoGeneratedDynamicAxis = Zero(UnsignedIntLimbs)
    /\ tpc = [t \in Threads |-> "idle"]
    /\ fetched = [t \in Threads |-> Zero(UnsignedIntLimbs)]
    /\ ticket = [t \in Threads |-> Zero(CountLimbs)]
    /\ handedOut = Zero(CountLimbs)
    /\ names = << >>

\* An axis name is a sequence of characters; "*" and "_" stand for the
\* characters internal names may be made of, "a" for any other.
Chars == {"*", "_", "a"}
RECURSIVE NamesOfLen(_)
NamesOfLen(n) ==
    IF n = 0 THEN {<< >>}
    ELSE {Append(s, c) : s \in NamesOfLen(n - 1), c \in Chars}
\* The non-empty names of up to MaxNameLen characters.
AxisNames == UNION {NamesOfLen(n) : n \in 1..MaxNameLen}

\* A dynamic Axis is known by its name: Axis(name) and Name() are inverse,
\* and two dynamic axes are equal when their names are.
Axis(name) == [name |-> name]
Name(axis) == axis.name
DefaultDynamicAxis == Axis(<<"defaultDynamicAxis">>)
DefaultBatchAxis == Axis(<<"defaultBatchAxis">>)

\* The values the two internal names may have: shorter than the longest
\* axis name, so that an axis name can begin with one.
InternalNames == UNION {NamesOfLen(n) : n \in 1..(MaxNameLen - 1)}

\* The axes a list may begin with, and the axes that may follow.
Axes == {DefaultDynamicAxis, DefaultBatchAxis} \cup {Axis(n) : n \in AxisNames}
TailAxes == {DefaultDynamicAxis, DefaultBatchAxis, Axis(<<"a">>)}
RECURSIVE TailsOfLen(_)
TailsOfLen(n) ==
    IF n = 0 THEN {<< >>}
    ELSE {Append(s, a) : s \in TailsOfLen(n - 1), a \in TailAxes}
\* The lists of up to MaxAxes axes.
AxisLists ==
    {<< >>} \cup {<<a>> \o t : a \in Axes,
                                t \in UNION {TailsOfLen(n) : n \in 0..(MaxAxes - 1)}}

\* Neither helper has been called.
NoAxisNameCall ==
    /\ dynamicAxes = << >>
    /\ hpc = "start"
    /\ internalDynamicAxisName = [error |-> "none", name |-> << >>]
    /\ inputVarDynamicAxes = << >>

InitOn(graphs) ==
    /\ funcInputs \in graphs
    /\ TraverseIdle
    /\ NoComposite
    /\ NoForward
    /\ NoAxisCall
    /\ NoAxisNameCall
    /\ InternalDefaultDynamicAxisName = <<"*">>
    /\ InternalNoSequenceAxisName = <<"_">>

Init == InitOn(AcyclicGraphsFrom(Leaves, 1, MaxTotalInputs))

Next == CallTraverse \/ CallCollect \/ CallDetermineInputs \/ Step

\* The entry points called with a fresh visited set on every acyclic graph.
Spec == Init /\ [][Next]_vars

InitVisited == InitOn(AcyclicGraphsFrom(Leaves, 1, MaxTotalInputs - 1))

\* The entry points with the recursion scheduled: a call that can take a step
\* does.
FairSpec == InitVisited /\ [][Next]_vars /\ WF_vars(Step)

NextVisited == CallTraverseVisited \/ Step

\* Traverse called with a visited set of the caller's, empty or not.
SpecVisited == InitVisited /\ [][NextVisited]_vars

InitCyclic == InitOn(GraphsFrom({x}, 1, MaxTotalInputs - 2))

NextCyclic == CallTraverse \/ Step

\* Traverse with a fresh visited set on every graph, cyclic or not, with the
\* recursion scheduled.
FairSpecCyclic == InitCyclic /\ [][NextCyclic]_vars /\ WF_vars(Step)

\* --------------------------------------------------------------- composite
\* Collect(rootFunction, functions): Traverse with the empty lambda.
Collect(g, f, functions) ==
    TraverseRun(g, TraverseEnter(g, Config("Collect", functions), f)).visitedFunctions

\* DetermineInputs(rootFunction, visitedFunctions): the vector it returns.
DetermineInputs(g, f, visited) ==
    TraverseRun(g, TraverseEnter(g, Config("DetermineInputs", visited), f)).inputs

\* A replacement map is a set of <<placeholder, replacing Variable>> pairs
\* with one pair per placeholder.
Keys(m) == {e[1] : e \in m}
At(m, k) == (CHOOSE e \in m : e[1] = k)[2]

ReplacementValues == {x} \cup UNION {OutputsOf(n) : n \in Nodes}
\* The non-empty maps whose keys are in K.
ReplacementMaps(K) ==
    UNION {{{<<k, f[k]>> : k \in D} : f \in [D -> ReplacementValues]} :
              D \in SUBSET K \ {{}}}

\* The substitution ReplacePlaceholders performs before it calls
\* OnPlaceholdersReplaced: walking from the root, every input that is a key
\* of the map is replaced once, and the walk goes on through the Outputs a
\* Function lists after its replacement.
RECURSIVE ReplacePlaceholdersInPlace(_, _, _, _, _)
ReplacePlaceholdersInPlace(g, todo, done, m, replaced) ==
    IF todo = {} THEN [graph |-> g, replaced |-> replaced]
    ELSE LET f == CHOOSE n \in todo : TRUE
             newInputs == [i \in 1..Len(g[f]) |->
                              IF g[f][i] \in Keys(m) THEN At(m, g[f][i]) ELSE g[f][i]]
             g2 == [g EXCEPT ![f] = newInputs]
             owners == {Owner(newInputs[i]) :
                           i \in {j \in 1..Len(newInputs) : IsOutput(newInputs[j])}}
         IN  ReplacePlaceholdersInPlace(g2, (todo \cup owners) \ (done \cup {f}),
                 done \cup {f}, m, replaced \cup {v \in Keys(m) : \E i \in 1..Len(g[f]) : g[f][i] = v})

\* OnPlaceholdersReplaced without the Collect: only the owner joins the set.
OnPlaceholdersReplacedOwnerOnly(g, owned, m, replaced) ==
    owned \cup {Owner(At(m, ph)) : ph \in {r \in replaced : IsOutput(At(m, r))}}

\* OnPlaceholdersReplaced that adds nothing.
OnPlaceholdersReplacedNothing(g, owned, m, replaced) == owned

\* OnPlaceholdersReplaced that assigns what it collected instead of
\* inserting it.
OnPlaceholdersReplacedAssign(g, owned, m, replaced) ==
    IF \E r \in replaced : IsOutput(At(m, r))
    THEN UNION {Collect(g, Owner(At(m, ph)), {}) :
                   ph \in {r \in replaced : IsOutput(At(m, r))}}
    ELSE owned

\* OnPlaceholdersReplaced: its two arguments as it leaves them.  The map is
\* const, and the loop reads the set of replaced placeholders by copy.
OnPlaceholdersReplacedArguments(m, replaced) ==
    [placeholderReplacements |-> m, replacedPlaceholders |-> replaced]

\* OnPlaceholdersReplaced: the owned set it leaves.  For every replaced
\* placeholder whose replacing Variable is an Output, Collect is run on the
\* owner with a fresh set, and what it visited is inserted.
OnPlaceholdersReplaced(g, owned, m, replaced) ==
    owned \cup UNION {Collect(g, Owner(At(m, ph)), {}) :
                         ph \in {r \in replaced : IsOutput(At(m, r))}}

\* CompositeFunction::Create(rootFunction).
Create ==
    \E f \in Nodes :
        /\ pc = "idle"
        /\ m_rootFunction' = f
        /\ m_allPrimitiveFunctions' = Collect(funcInputs, f, {})
        /\ pc' = "created"
        /\ UNCHANGED <<funcInputs, op, rootFunction, stack, visitedFunctions, inputs,
                       uniqueInputs, calls, visited0, placeholderReplacements,
                       replacedPlaceholders, ownedBefore, handed, fwdVars, axisVars>>

\* ReplacePlaceholders(m) on the composite: the keys must be placeholders
\* among the composite's inputs; the substitution, then
\* OnPlaceholdersReplaced with the placeholders it replaced.
ReplacePlaceholders ==
    /\ pc \in {"created", "replaced"}
    /\ LET free == DetermineInputs(funcInputs, m_rootFunction, {})
           present == {free[i] : i \in 1..Len(free)} \cap Placeholders
       IN  \E m \in ReplacementMaps(present) :
        /\ LET r == ReplacePlaceholdersInPlace(funcInputs, {m_rootFunction}, {}, m, {})
               after == OnPlaceholdersReplacedArguments(m, r.replaced)
           IN  /\ funcInputs' = r.graph
               /\ handed' = [placeholderReplacements |-> m,
                             replacedPlaceholders |-> r.replaced]
               /\ placeholderReplacements' = after.placeholderReplacements
               /\ replacedPlaceholders' = after.replacedPlaceholders
               /\ m_allPrimitiveFunctions' =
                      OnPlaceholdersReplaced(r.graph, m_allPrimitiveFunctions, m, r.replaced)
        /\ ownedBefore' = m_allPrimitiveFunctions
        /\ pc' = "replaced"
        /\ UNCHANGED <<op, rootFunction, stack, visitedFunctions, inputs, uniqueInputs,
                       calls, visited0, m_rootFunction, fwdVars, axisVars>>

\* DetermineInputs() of the composite: from RootFunction() with a fresh set.
CompositeDetermineInputs == DetermineInputs(funcInputs, m_rootFunction, {})

InitComposite ==
    InitOn(AcyclicGraphsFrom(CompositeLeaves, 1, MaxTotalInputs - 1))

NextComposite == Create \/ ReplacePlaceholders

\* A composite created on an acyclic graph, its placeholders replaced.
SpecComposite == InitComposite /\ [][NextComposite]_vars

\* -------------------------------------------------- Forward and Backward
\* CNTKBackPropState whose constructor drops the timestamps it is handed.
CNTKBackPropStateNoTimeStamps(function, backpropRootsForwardTimeStamps) ==
    [function |-> function, m_backpropRootsForwardTimeStamps |-> {}]

\* CNTKBackPropState(function, computeDevice, backpropRootsForwardTimeStamps):
\* the state keeps its own copy of the map, as <<root, timestamp>> pairs.
CNTKBackPropState(function, backpropRootsForwardTimeStamps) ==
    [function |-> function,
     m_backpropRootsForwardTimeStamps |-> backpropRootsForwardTimeStamps]

BackpropRootsForwardTimeStamps(state) == state.m_backpropRootsForwardTimeStamps

\* GetCurrentBackpropRootsTimeStamps() on recorded roots and timestamps.
GetCurrentBackpropRootsTimeStamps(roots, stamps) == {<<v, stamps[v]>> : v \in roots}

\* The configuration test that looks at the backprop roots only.
SameConfigurationRootsOnly(backpropRoots, outputs) ==
    backpropRoots = m_currentBackpropRoots

\* The call's sets are the ones the cached network was built for.
SameConfiguration(backpropRoots, outputs) ==
    /\ backpropRoots = m_currentBackpropRoots
    /\ outputs = m_currentOutputs

\* GetComputationNetwork(device, backpropRoots, outputs, allocateNetworkMatrices):
\* what a call may do.  Without a network one is built; with one built for
\* the same sets it is reused; with one built for other sets the layout is
\* not reused: it is rebuilt for the call's sets, or the call is refused.
GetComputationNetwork(backpropRoots, outputs) ==
    IF m_computationNetwork = "null" THEN {"built"}
    ELSE IF SameConfiguration(backpropRoots, outputs) THEN {"reused"}
    ELSE {"rebuilt", "refused"}

\* The Parameter of the graph Forward is called on.
w == LeafVar("Parameter", 1)

\* The graphs Forward is called on: the root lists an Input and the
\* Parameter, and in one of them a placeholder that was never replaced.
ForwardGraphs ==
    {[n \in Nodes |-> IF n = MaxNodes THEN inputsOfRoot ELSE << >>] :
        inputsOfRoot \in {<<x, w>>, <<x, w, p>>}}

Devices == {"CPU", "GPU"}

\* The Variables a network built for the graph has a node for.
GraphVariables == RootOutputs \cup {x, w}

\* The arguments of a call that supplies the graph's Input.
Arguments == {x}

\* What makes Forward fail before it touches the cached network: a
\* placeholder left in the graph, an argument the graph does not declare, an
\* output that is not the graph's, a device other than the network's.
ForwardError(arguments, outputs, computeDevice) ==
    IF \E i \in 1..Len(funcInputs[MaxNodes]) : funcInputs[MaxNodes][i] \in Placeholders
        THEN "unresolved placeholder"
    ELSE IF ~(arguments \subseteq {x}) THEN "unknown argument"
    ELSE IF ~(outputs \subseteq RootOutputs) THEN "unknown output"
    ELSE IF m_computationNetwork # "null" /\ computeDevice # networkDevice
        THEN "device mismatch"
    ELSE "none"

Max(S) == CHOOSE n \in S : \A m \in S : m <= n

\* Forward(arguments, outputs, computeDevice, outputsToRetainBackwardStateFor).
\* A refused call changes nothing.  Otherwise the sets are recorded, the
\* roots computed get a fresh timestamp, and with a non-empty retain set a
\* CNTKBackPropState with the current timestamps of the backprop roots is
\* returned.
Forward ==
    \E outputs \in SUBSET RootOutputs \ {{}}, outputsToRetainBackwardStateFor \in SUBSET RootOutputs,
       how \in {"built", "reused", "rebuilt", "refused"}, computeDevice \in Devices :
        /\ lastForward.n < MaxForwards
        /\ ForwardError(Arguments, outputs, computeDevice) = "none"
        /\ how \in GetComputationNetwork(outputsToRetainBackwardStateFor, outputs)
        /\ lastForward' = [n |-> lastForward.n + 1,
                           backpropRoots |-> outputsToRetainBackwardStateFor,
                           outputs |-> outputs, how |-> how,
                           hadNetwork |-> m_computationNetwork # "null",
                           prevBackpropRoots |-> m_currentBackpropRoots,
                           prevOutputs |-> m_currentOutputs]
        /\ IF how = "refused"
           THEN UNCHANGED <<m_computationNetwork, m_currentBackpropRoots, m_currentOutputs,
                            m_networkMatricesAllocated, timeStamps, backPropStates,
                            advancedSince, m_variableToNodeMap,
                            m_lastRecordedParameterValueTimeStamps, networkDevice>>
           ELSE LET computed == outputs \cup outputsToRetainBackwardStateFor
                    now == Max({timeStamps[v] : v \in RootOutputs}) + 1
                    stamps == [v \in RootOutputs |->
                                  IF v \in computed THEN now ELSE timeStamps[v]]
                    aged == [i \in 1..Len(advancedSince) |->
                                [advancedSince[i] EXCEPT !.advanced =
                                    @ \/ (advancedSince[i].roots \cap computed # {})]]
                IN  /\ m_computationNetwork' = "built"
                    /\ m_currentBackpropRoots' = outputsToRetainBackwardStateFor
                    /\ m_currentOutputs' = outputs
                    /\ m_networkMatricesAllocated' = TRUE
                    /\ m_variableToNodeMap' = GraphVariables
                    /\ m_lastRecordedParameterValueTimeStamps' = {<<w, 0>>}
                    /\ networkDevice' = computeDevice
                    /\ timeStamps' = stamps
                    /\ IF outputsToRetainBackwardStateFor = {}
                       THEN /\ backPropStates' = backPropStates
                            /\ advancedSince' = aged
                       ELSE /\ backPropStates' = Append(backPropStates,
                                   CNTKBackPropState("this",
                                       GetCurrentBackpropRootsTimeStamps(
                                           outputsToRetainBackwardStateFor, stamps)))
                            /\ advancedSince' = Append(aged,
                                   [roots |-> outputsToRetainBackwardStateFor,
                                    snapshot |-> stamps, advanced |-> FALSE])
        /\ UNCHANGED <<funcInputs, travVars, compVars, lastBackward, lastFailure, axisVars>>

\* Backward(state, rootGradientValues, backPropagatedGradientValuesForInputs)
\* with a state an earlier Forward returned: it fails when a root's current
\* timestamp is not the one the state holds, and then hands back no gradient.
Backward ==
    \E i \in 1..Len(backPropStates) :
        LET state == backPropStates[i]
            stale == \E e \in BackpropRootsForwardTimeStamps(state) :
                         timeStamps[e[1]] # e[2]
        IN  /\ lastBackward' =
                   [state |-> i,
                    result |-> IF stale THEN "stale" ELSE "ok",
                    gradients |-> IF stale THEN {} ELSE {x},
                    advanced |-> advancedSince[i].advanced,
                    fresh |-> \A v \in advancedSince[i].roots :
                                  timeStamps[v] = advancedSince[i].snapshot[v]]
            /\ UNCHANGED <<funcInputs, travVars, compVars, m_computationNetwork,
                           m_currentBackpropRoots, m_currentOutputs,
                           m_networkMatricesAllocated, timeStamps, backPropStates,
                           advancedSince, lastForward, m_variableToNodeMap,
                           m_lastRecordedParameterValueTimeStamps, networkDevice,
                           lastFailure, axisVars>>

\* The recorded sets after a failed Forward that had recorded the call's
\* sets before it found the error.
RecordedAfterFailureOfCall(backpropRoots, outputs) ==
    [backpropRoots |-> backpropRoots, outputs |-> outputs]

\* The recorded sets after a failed Forward: the ones recorded before.
RecordedAfterFailure(backpropRoots, outputs) ==
    [backpropRoots |-> m_currentBackpropRoots, outputs |-> m_currentOutputs]

\* A Forward call that fails on what it is handed: nothing of the cached
\* state is touched.
ForwardFails ==
    \E arguments \in {{x}, {x, q}}, outputs \in {RootOutputs, RootOutputs \cup {x}},
       outputsToRetainBackwardStateFor \in {{}}, computeDevice \in Devices :
        /\ ForwardError(arguments, outputs, computeDevice) # "none"
        /\ lastFailure' = [call |-> "Forward",
                           error |-> ForwardError(arguments, outputs, computeDevice)]
        /\ LET recorded == RecordedAfterFailure(outputsToRetainBackwardStateFor, outputs)
           IN  /\ m_currentBackpropRoots' = recorded.backpropRoots
               /\ m_currentOutputs' = recorded.outputs
        /\ UNCHANGED <<funcInputs, travVars, compVars, m_computationNetwork,
                       m_networkMatricesAllocated, timeStamps, backPropStates,
                       advancedSince, lastForward, lastBackward, m_variableToNodeMap,
                       m_lastRecordedParameterValueTimeStamps, networkDevice, axisVars>>

\* A Backward call that asks for the gradient of a Variable that is no
\* input of the graph: it fails and nothing is touched.
BackwardFails ==
    \E i \in 1..Len(backPropStates) :
        /\ lastFailure' = [call |-> "Backward", error |-> "unknown gradient"]
        /\ UNCHANGED <<funcInputs, travVars, compVars, m_computationNetwork,
                       m_currentBackpropRoots, m_currentOutputs,
                       m_networkMatricesAllocated, timeStamps, backPropStates,
                       advancedSince, lastForward, lastBackward, m_variableToNodeMap,
                       m_lastRecordedParameterValueTimeStamps, networkDevice, axisVars>>

InitForward == InitOn(ForwardGraphs)

NextForward == Forward \/ Backward \/ ForwardFails \/ BackwardFails

\* Forward and Backward calls on one composite, in any order.
SpecForward == InitForward /\ [][NextForward]_vars

\* ------------------------------------------- NextAutoGeneratedDynamicAxis
s_autoGeneratedDynamicAxisNamePrefix == "autoGeneratedDynamicAxis_"

DigitChars == <<"0", "1", "2", "3", "4", "5", "6", "7", "8", "9">>

\* std::to_wstring of an unsigned value: its decimal digits.
RECURSIVE to_wstring(_)
to_wstring(a) ==
    LET d == DivTen(a, 1, 0, << >>)
    IN  IF d.quot = Zero(Len(a)) THEN DigitChars[d.rem + 1]
        ELSE to_wstring(d.quot) \o DigitChars[d.rem + 1]

\* s_nextAutoGeneratedDynamicAxis++ on the atomic: one indivisible step
\* that yields the old value and stores the successor, modulo the width.
PostIncrement(counter) ==
    [value |-> counter, next |-> Add(counter, One(UnsignedIntLimbs))]

\* A run of calls in a row this long brings the counter back to where it was
\* with one more call.
BurstLen == AllOnes(UnsignedIntLimbs)

\* The counter after n calls in a row.
PostIncrementTimes(counter, n) == Add(counter, n)

\* Thread t's call reaches s_nextAutoGeneratedDynamicAxis++.
FetchIncrement(t) ==
    /\ tpc[t] = "idle"
    /\ Len(names) + Cardinality({u \in Threads : tpc[u] = "fetched"}) < MaxAxisCalls
    /\ LET r == PostIncrement(s_nextAutoGeneratedDynamicAxis)
       IN  /\ fetched' = [fetched EXCEPT ![t] = r.value]
           /\ s_nextAutoGeneratedDynamicAxis' = r.next
    /\ ticket' = [ticket EXCEPT ![t] = handedOut]
    /\ handedOut' = Add(handedOut, One(CountLimbs))
    /\ tpc' = [tpc EXCEPT ![t] = "fetched"]
    /\ UNCHANGED <<funcInputs, travVars, compVars, fwdVars, names, nameVars>>

\* Thread t's call builds the name from the value it got and returns.
ReturnAxis(t) ==
    /\ tpc[t] = "fetched"
    /\ names' = Append(names,
           [k |-> ticket[t],
            name |-> s_autoGeneratedDynamicAxisNamePrefix \o to_wstring(fetched[t])])
    /\ tpc' = [tpc EXCEPT ![t] = "idle"]
    /\ UNCHANGED <<funcInputs, travVars, compVars, fwdVars,
                   s_nextAutoGeneratedDynamicAxis, fetched, ticket, handedOut, nameVars>>

\* Thread t makes BurstLen whole calls in a row while the other threads
\* stand still; the names these calls return are not recorded.  The top
\* limb of the count tells how often the counter has wrapped.
ManyCalls(t) ==
    /\ tpc[t] = "idle"
    /\ handedOut[1] < MaxWraps
    /\ s_nextAutoGeneratedDynamicAxis' =
           PostIncrementTimes(s_nextAutoGeneratedDynamicAxis, BurstLen)
    /\ handedOut' = Add(handedOut, Resize(BurstLen, CountLimbs))
    /\ UNCHANGED <<funcInputs, travVars, compVars, fwdVars, tpc, fetched, ticket, names,
                   nameVars>>

InitAxis == InitOn({[n \in Nodes |-> << >>]})

NextAxis == \E t \in Threads : FetchIncrement(t) \/ ReturnAxis(t) \/ ManyCalls(t)

\* Threads calling NextAutoGeneratedDynamicAxis, their steps interleaved.
SpecAxis == InitAxis /\ [][NextAxis]_vars

\* -------------------------------------------------- the axis-name helpers
\* s.substr(0, n): the first n characters of s, all of s when it is shorter.
Substr0(s, n) == SubSeq(s, 1, IF n < Len(s) THEN n ELSE Len(s))

\* DynamicAxesFromInternalDynamicAxisName with the results of its first two
\* branches exchanged.
DynamicAxesFromInternalDynamicAxisNameSwapped(name) ==
    IF Substr0(name, Len(InternalDefaultDynamicAxisName)) = InternalDefaultDynamicAxisName
        THEN <<DefaultBatchAxis>>
    ELSE IF Substr0(name, Len(InternalNoSequenceAxisName)) = InternalNoSequenceAxisName
        THEN <<DefaultDynamicAxis, DefaultBatchAxis>>
    ELSE <<Axis(name), DefaultBatchAxis>>

\* DynamicAxesFromInternalDynamicAxisName(internalDynamicAxisName).
DynamicAxesFromInternalDynamicAxisName(name) ==
    IF Substr0(name, Len(InternalDefaultDynamicAxisName)) = InternalDefaultDynamicAxisName
        THEN <<DefaultDynamicAxis, DefaultBatchAxis>>
    ELSE IF Substr0(name, Len(InternalNoSequenceAxisName)) = InternalNoSequenceAxisName
        THEN <<DefaultBatchAxis>>
    ELSE <<Axis(name), DefaultBatchAxis>>

\* InternalDynamicAxisNameFromDynamicAxes without its test for the empty list.
InternalDynamicAxisNameFromDynamicAxesNoCheck(axes) ==
    IF axes = <<DefaultBatchAxis>>
        THEN [error |-> "none", name |-> InternalNoSequenceAxisName]
    ELSE IF axes = <<DefaultDynamicAxis, DefaultBatchAxis>>
        THEN [error |-> "none", name |-> InternalDefaultDynamicAxisName]
    ELSE [error |-> "none", name |-> IF axes = << >> THEN << >> ELSE Name(axes[1])]

\* InternalDynamicAxisNameFromDynamicAxes(dynamicAxes): LogicError throws, so
\* on the empty list no name is returned.
InternalDynamicAxisNameFromDynamicAxes(axes) ==
    IF axes = << >> THEN [error |-> "LogicError", name |-> << >>]
    ELSE IF axes = <<DefaultBatchAxis>>
        THEN [error |-> "none", name |-> InternalNoSequenceAxisName]
    ELSE IF axes = <<DefaultDynamicAxis, DefaultBatchAxis>>
        THEN [error |-> "none", name |-> InternalDefaultDynamicAxisName]
    ELSE [error |-> "none", name |-> Name(axes[1])]

CallInternalDynamicAxisNameFromDynamicAxes ==
    /\ hpc = "start"
    /\ internalDynamicAxisName' = InternalDynamicAxisNameFromDynamicAxes(dynamicAxes)
    /\ hpc' = "named"
    /\ UNCHANGED <<funcInputs, travVars, compVars, fwdVars, s_nextAutoGeneratedDynamicAxis,
                   tpc, fetched, ticket, handedOut, names, InternalDefaultDynamicAxisName,
                   InternalNoSequenceAxisName, dynamicAxes, inputVarDynamicAxes>>

\* The name the first helper returned is handed to the second.
CallDynamicAxesFromInternalDynamicAxisName ==
    /\ hpc = "named"
    /\ internalDynamicAxisName.error = "none"
    /\ inputVarDynamicAxes' =
           DynamicAxesFromInternalDynamicAxisName(internalDynamicAxisName.name)
    /\ hpc' = "parsed"
    /\ UNCHANGED <<funcInputs, travVars, compVars, fwdVars, s_nextAutoGeneratedDynamicAxis,
                   tpc, fetched, ticket, handedOut, names, InternalDefaultDynamicAxisName,
                   InternalNoSequenceAxisName, dynamicAxes, internalDynamicAxisName>>

\* Every list of axes, and every pair of internal names the second of
\* which does not begin with the first (the second branch of
\* DynamicAxesFromInternalDynamicAxisName is dead otherwise): their values
\* are set outside the header.
InitAxisNames ==
    /\ funcInputs = [n \in Nodes |-> << >>]
    /\ TraverseIdle
    /\ NoComposite
    /\ NoForward
    /\ NoAxisCall
    /\ InternalDefaultDynamicAxisName \in InternalNames
    /\ InternalNoSequenceAxisName \in InternalNames
    /\ Substr0(InternalNoSequenceAxisName, Len(InternalDefaultDynamicAxisName))
           # InternalDefaultDynamicAxisName
    /\ dynamicAxes \in AxisLists
    /\ hpc = "start"
    /\ internalDynamicAxisName = [error |-> "none", name |-> << >>]
    /\ inputVarDynamicAxes = << >>

NextAxisNames ==
    CallInternalDynamicAxisNameFromDynamicAxes \/ CallDynamicAxesFromInternalDynamicAxisName

\* The two helpers applied one after the other to a list of axes.
SpecAxisNames == InitAxisNames /\ [][NextAxisNames]_vars

\* ------------------------------------------------- reference definitions
\* The Functions one edge away from f: the Owners of f's Output inputs.
InputOwners(g, f) == {Owner(g[f][i]) : i \in {j \in 1..Len(g[f]) : IsOutput(g[f][j])}}

\* The least set holding S and closed under InputOwners.
RECURSIVE Closure(_, _)
Closure(g, S) ==
    LET T == S \cup UNION {InputOwners(g, f) : f \in S}
    IN  IF T = S THEN S ELSE Closure(g, T)

\* The reachable closure of root.
Reach(g, root) == Closure(g, {root})

\* Number of occurrences of e in sequence s.
Count(s, e) == Cardinality({i \in 1..Len(s) : s[i] = e})

\* Depth-first pre-order of the Functions reachable from f that are not in
\* acc.seen, inputs taken in listed order, as a textbook recursive descent.
RECURSIVE RefVisit(_, _, _), RefScan(_, _, _, _)
RefVisit(g, f, acc) ==
    IF f \in acc.seen THEN acc
    ELSE RefScan(g, f, 1, [seen |-> acc.seen \cup {f}, order |-> Append(acc.order, f)])
RefScan(g, f, i, acc) ==
    IF i > Len(g[f]) THEN acc
    ELSE RefScan(g, f, i + 1,
                 IF IsOutput(g[f][i]) THEN RefVisit(g, Owner(g[f][i]), acc) ELSE acc)

PreOrder(g, root) == RefVisit(g, root, [seen |-> {}, order |-> << >>]).order

\* The non-Output inputs of the Functions of `order', Function by Function,
\* each Function's inputs in listed order.
RECURSIVE LeafInputsAlong(_, _)
LeafInputsAlong(g, order) ==
    IF order = << >> THEN << >>
    ELSE SelectSeq(g[Head(order)], LAMBDA v : ~IsOutput(v)) \o LeafInputsAlong(g, Tail(order))

\* s with every element's later occurrences dropped.
RECURSIVE FirstOccurrences(_)
FirstOccurrences(s) ==
    IF s = << >> THEN << >>
    ELSE LET init == SubSeq(s, 1, Len(s) - 1)
             last == s[Len(s)]
         IN  IF \E i \in 1..Len(init) : init[i] = last
             THEN FirstOccurrences(init)
             ELSE Append(FirstOccurrences(init), last)

Range(s) == {s[i] : i \in 1..Len(s)}

\* f is consumed by two different Functions of S.
Shared(g, f, S) == \E a, b \in S : a # b /\ f \in InputOwners(g, a) /\ f \in InputOwners(g, b)

\* Some Function of S lists two different Outputs of one owner.
ListsTwoOutputsOfOneOwner(g, S) ==
    \E f \in S : \E i, j \in 1..Len(g[f]) :
        /\ IsOutput(g[f][i]) /\ IsOutput(g[f][j])
        /\ g[f][i] # g[f][j] /\ Owner(g[f][i]) = Owner(g[f][j])

\* ------------------------------------------------------------------ claims
\* C1: on every finite acyclic graph, Collect(root, S) started with S empty
\* leaves S equal to the reachable closure of root: S holds root, holds the
\* owner of every Output input of every Function in S, and holds no Function
\* that is not reachable from root.
C1_CollectIsReachableClosure ==
    (pc = "done" /\ op = "Collect" /\ visited0 = {}) =>
        /\ rootFunction \in visitedFunctions
        /\ \A f \in visitedFunctions : InputOwners(funcInputs, f) \subseteq visitedFunctions
        /\ visitedFunctions \subseteq Reach(funcInputs, rootFunction)

\* A Collect that returned a closure of two Functions while a Function outside
\* it consumes the root's Output and another one is consumed from outside only.
C1_Witness ==
    /\ pc = "done" /\ op = "Collect" /\ visited0 = {}
    /\ Cardinality(visitedFunctions) = 2
    /\ \E f \in Nodes \ visitedFunctions : rootFunction \in InputOwners(funcInputs, f)

\* C2: on every finite acyclic graph, Traverse(root, functor) started from a
\* fresh visited set invokes the functor exactly once on every Function of the
\* reachable closure of root and on no other, also under diamond sharing and
\* when a Function lists several Outputs of one owner.
C2_FunctorOncePerReachable ==
    /\ (op = "Traverse" /\ visited0 = {}) =>
            \A f \in Nodes : Count(calls, f) <= 1
    /\ (pc = "done" /\ op = "Traverse" /\ visited0 = {}) =>
            \A f \in Nodes :
                Count(calls, f) = IF f \in Reach(funcInputs, rootFunction) THEN 1 ELSE 0

\* A finished Traverse over a graph with a shared Function and a Function that
\* lists both Outputs of one owner.
C2_Witness ==
    /\ pc = "done" /\ op = "Traverse" /\ visited0 = {}
    /\ \E f \in visitedFunctions : Shared(funcInputs, f, visitedFunctions)
    /\ ListsTwoOutputsOfOneOwner(funcInputs, visitedFunctions)

\* C3: on every finite acyclic graph, DetermineInputs(root) with an empty
\* visited set returns every non-Output input of every Function reachable
\* from root exactly once, no Output, in the order of first encounter of the
\* depth-first pre-order traversal with each Function's inputs in listed order.
C3_DetermineInputsOrder ==
    (pc = "done" /\ op = "DetermineInputs" /\ visited0 = {}) =>
        LET reach == Reach(funcInputs, rootFunction)
            free == {v \in UNION {Range(funcInputs[f]) : f \in reach} : ~IsOutput(v)}
        IN  /\ Range(inputs) = free
            /\ \A v \in free : Count(inputs, v) = 1
            /\ \A i \in 1..Len(inputs) : ~IsOutput(inputs[i])
            /\ inputs = FirstOccurrences(
                            LeafInputsAlong(funcInputs, PreOrder(funcInputs, rootFunction)))

\* A DetermineInputs that returned two Variables, the first of them listed by
\* the root after an Output and listed again by that Output's owner, whose
\* list starts with the second.
C3_Witness ==
    /\ pc = "done" /\ op = "DetermineInputs" /\ visited0 = {}
    /\ Len(inputs) = 2
    /\ Len(funcInputs[rootFunction]) = 2
    /\ IsOutput(funcInputs[rootFunction][1])
    /\ funcInputs[rootFunction][2] = inputs[1]
    /\ funcInputs[Owner(funcInputs[rootFunction][1])] = <<inputs[2], inputs[1]>>

\* C4: after Create(root) and any sequence of placeholder replacements, each
\* followed by OnPlaceholdersReplaced with the placeholders it replaced,
\* m_allPrimitiveFunctions is exactly the set of Functions reachable from the
\* root in the current graph.
C4_OwnedIsReachable ==
    pc \in {"created", "replaced"} =>
        m_allPrimitiveFunctions = Reach(funcInputs, m_rootFunction)

\* A replacement by an Output has grown the owned set by two Functions.
C4_Witness ==
    /\ pc = "replaced"
    /\ \E ph \in replacedPlaceholders : IsOutput(At(placeholderReplacements, ph))
    /\ Cardinality(m_allPrimitiveFunctions \ ownedBefore) = 2

\* C5: after a placeholder of the graph is replaced by the Output of a new
\* subgraph and OnPlaceholdersReplaced has run, the owned set holds every
\* Function of that subgraph, and DetermineInputs() of the composite lists the
\* non-Output inputs of the subgraph's Functions and not the placeholder;
\* also after earlier replacements.
C5_GraftedSubgraphOwned ==
    \A ph \in replacedPlaceholders :
        IsOutput(At(placeholderReplacements, ph)) =>
            LET sub == Reach(funcInputs, Owner(At(placeholderReplacements, ph)))
            IN  /\ sub \subseteq m_allPrimitiveFunctions
                /\ ph \notin Range(CompositeDetermineInputs)
                /\ \A f \in sub : \A v \in Range(funcInputs[f]) :
                       ~IsOutput(v) => v \in Range(CompositeDetermineInputs)

\* A replacement has grafted a subgraph of two Functions that were not owned,
\* and DetermineInputs() lists a Variable only a grafted Function lists.
C5_Witness ==
    /\ pc = "replaced"
    /\ Cardinality(Reach(funcInputs, m_rootFunction) \ ownedBefore) = 2
    /\ \E ph \in replacedPlaceholders :
          /\ IsOutput(At(placeholderReplacements, ph))
          /\ Owner(At(placeholderReplacements, ph)) \notin ownedBefore
          /\ \E v \in Range(CompositeDetermineInputs) :
                \A f \in ownedBefore : v \notin Range(funcInputs[f])

\* C6: a Backward call with a state some of whose captured roots a later
\* Forward has advanced fails as stale and hands back no gradient; a Backward
\* call succeeds only when every captured root's current timestamp is the
\* one snapshotted when the state was returned.
C6_StaleStateFails ==
    lastBackward.state # 0 =>
        /\ lastBackward.advanced =>
               lastBackward.result = "stale" /\ lastBackward.gradients = {}
        /\ lastBackward.result = "ok" => lastBackward.fresh
        /\ lastBackward.result = "stale" => lastBackward.gradients = {}

\* A state was returned, a later Forward recomputed one of its roots, and
\* Backward was then called with it.
C6_Witness ==
    /\ lastBackward.state # 0
    /\ lastBackward.advanced
    /\ lastBackward.result = "stale"
    /\ Len(backPropStates) >= 2

C8_AsStated ==
    /\ \A i, j \in 1..Len(names) : i # j => names[i].name # names[j].name
    /\ \A i \in 1..Len(names) :
           names[i].name = s_autoGeneratedDynamicAxisNamePrefix \o to_wstring(names[i].k)

\* Two calls have returned the same name: one of the first calls and the
\* call that got the value handed out 2^32 increments later.
C8_SameNameTwice ==
    \E i, j \in 1..Len(names) :
        /\ i # j
        /\ names[i].name = names[j].name
        /\ names[i].k # names[j].k

\* What holds of the counter at its width: the k-th value handed out is k
\* modulo 2^32, no count is given to two calls, and the calls made before
\* the counter wraps return names that differ.
C8_UniqueBeforeWrap ==
    /\ s_nextAutoGeneratedDynamicAxis = Resize(handedOut, UnsignedIntLimbs)
    /\ \A i \in 1..Len(names) :
           names[i].name = s_autoGeneratedDynamicAxisNamePrefix
                               \o to_wstring(Resize(names[i].k, UnsignedIntLimbs))
    /\ \A i, j \in 1..Len(names) :
           i # j => /\ names[i].k # names[j].k
                    /\ (names[i].k[1] = 0 /\ names[j].k[1] = 0)
                           => names[i].name # names[j].name

\* C9 as stated: Traverse called with a non-empty visited set never invokes
\* the functor on a Function that was in the set when the call began,
\* whichever Function is passed as root; the Functions of the set stay in it
\* and the set holds every Function the call visited.
C9_AsStated ==
    (op = "Traverse" /\ visited0 # {}) =>
        /\ \A f \in visited0 : Count(calls, f) = 0
        /\ visited0 \subseteq visitedFunctions
        /\ Range(calls) \subseteq visitedFunctions

\* C9 (amended): Traverse called with a non-empty visited set invokes the
\* functor exactly once on the Function passed as root, in the set or not,
\* and on no other Function that was in the set when the call began; the
\* Functions of the set stay in it and the set holds every Function the call
\* visited.
C9_VisitedSkippedExceptRoot ==
    (op = "Traverse" /\ visited0 # {}) =>
        /\ Count(calls, rootFunction) = 1
        /\ \A f \in visited0 \ {rootFunction} : Count(calls, f) = 0
        /\ visited0 \subseteq visitedFunctions
        /\ Range(calls) \subseteq visitedFunctions

\* A finished Traverse whose root was in the caller's set, which skipped a
\* Function of that set its root consumes and visited one that was not in it.
C9_Witness ==
    /\ pc = "done" /\ op = "Traverse"
    /\ rootFunction \in visited0
    /\ \E f \in visited0 \ {rootFunction} : f \in InputOwners(funcInputs, rootFunction)
    /\ visitedFunctions # visited0

\* C10: Traverse, and so Collect and DetermineInputs, terminates on every
\* finite acyclic graph: a call that has begun returns, and makes at most one
\* call of Traverse per Function of the reachable closure of its root.
C10_TraverseTerminates ==
    /\ (pc = "running") ~> (pc = "done")
    /\ [](pc # "idle" => Len(calls) <= Cardinality(Reach(funcInputs, rootFunction)))

\* A call that returned after a recursion three activations deep.
C10_Witness ==
    /\ pc = "done"
    /\ Len(calls) = 3
    /\ funcInputs[calls[1]] # << >> /\ funcInputs[calls[2]] # << >>
    /\ calls[2] \in InputOwners(funcInputs, calls[1])
    /\ calls[3] \in InputOwners(funcInputs, calls[2])

C12_EmptyAxesIsLogicError ==
    hpc # "start" =>
        /\ dynamicAxes = << >> =>
               /\ internalDynamicAxisName.error = "LogicError"
               /\ internalDynamicAxisName.name = << >>
               /\ hpc = "named"
        /\ dynamicAxes # << >> =>
               /\ internalDynamicAxisName.error = "none"
               /\ internalDynamicAxisName.name \in
                      {InternalDefaultDynamicAxisName, InternalNoSequenceAxisName,
                       Name(dynamicAxes[1])}

\* The helper was called with the empty list.
C12_Witness ==
    /\ hpc = "named"
    /\ dynamicAxes = << >>
    /\ internalDynamicAxisName.error = "LogicError"

\* s begins with prefix.
StartsWith(s, prefix) == Substr0(s, Len(prefix)) = prefix

\* The lists [DefaultBatchAxis], [DefaultDynamicAxis, DefaultBatchAxis] and
\* [A, DefaultBatchAxis].
SupportedAxisList(axes) ==
    \/ axes = <<DefaultBatchAxis>>
    \/ Len(axes) = 2 /\ axes[2] = DefaultBatchAxis

\* C16, as stated: on every supported list the second helper, applied to
\* the name the first one returns, gives the list back.
C16_AsStated ==
    (hpc = "parsed" /\ SupportedAxisList(dynamicAxes)) => inputVarDynamicAxes = dynamicAxes

\* C16: the helpers give [DefaultDynamicAxis, DefaultBatchAxis] back; they
\* give [DefaultBatchAxis] back when InternalNoSequenceAxisName does not
\* begin with InternalDefaultDynamicAxisName; they give [A, DefaultBatchAxis]
\* back when the name of A begins with neither internal name, and the
\* default list or [DefaultBatchAxis] instead when it begins with one.
C16_RoundTripOnUnreservedNames ==
    hpc = "parsed" =>
        /\ dynamicAxes = <<DefaultDynamicAxis, DefaultBatchAxis>> =>
               inputVarDynamicAxes = dynamicAxes
        /\ (/\ dynamicAxes = <<DefaultBatchAxis>>
            /\ ~StartsWith(InternalNoSequenceAxisName, InternalDefaultDynamicAxisName)) =>
               inputVarDynamicAxes = dynamicAxes
        /\ (/\ Len(dynamicAxes) = 2
            /\ dynamicAxes[2] = DefaultBatchAxis
            /\ dynamicAxes[1] # DefaultDynamicAxis) =>
               LET A == Name(dynamicAxes[1])
               IN  IF StartsWith(A, InternalDefaultDynamicAxisName)
                       THEN inputVarDynamicAxes = <<DefaultDynamicAxis, DefaultBatchAxis>>
                   ELSE IF StartsWith(A, InternalNoSequenceAxisName)
                       THEN inputVarDynamicAxes = <<DefaultBatchAxis>>
                   ELSE inputVarDynamicAxes = dynamicAxes

\* The helpers were applied to [A, DefaultBatchAxis] with A a named axis
\* whose name begins with neither internal name, and gave the list back.
C16_Witness ==
    /\ hpc = "parsed"
    /\ Len(dynamicAxes) = 2
    /\ dynamicAxes[2] = DefaultBatchAxis
    /\ Name(dynamicAxes[1]) \in AxisNames
    /\ ~StartsWith(Name(dynamicAxes[1]), InternalDefaultDynamicAxisName)
    /\ ~StartsWith(Name(dynamicAxes[1]), InternalNoSequenceAxisName)
    /\ inputVarDynamicAxes = dynamicAxes

\* C13: Traverse visits in depth-first pre-order.  The functor's calls are
\* at every moment a prefix of the pre-order of the reachable Functions with
\* inputs taken in listed order, and the whole of it on return, so the visit
\* sequence is a function of graph and root; every activation below the
\* innermost one waits at the input through which the next activation was
\* entered, and is not touched until that activation has returned.
C13_DepthFirstPreOrder ==
    /\ []((op = "Traverse" /\ visited0 = {}) =>
            LET order == PreOrder(funcInputs, rootFunction)
            IN  /\ Len(calls) <= Len(order)
                /\ calls = SubSeq(order, 1, Len(calls))
                /\ pc = "done" => calls = order
                /\ \A j \in 1..(Len(stack) - 1) :
                       LET waiting == funcInputs[stack[j].f][stack[j].i - 1]
                       IN  /\ IsOutput(waiting)
                           /\ stack[j + 1].f = Owner(waiting))
    /\ [][\A j \in 1..(Len(stack) - 1) : stack'[j] = stack[j]]_vars

\* A finished Traverse in which the Function reached through the root's
\* first input is where the owner of a later input of the root was first
\* reached: it was visited inside the earlier input's sub-traversal.
C13_Witness ==
    /\ pc = "done" /\ op = "Traverse" /\ visited0 = {}
    /\ Len(calls) = 3
    /\ \E i, j \in 1..Len(funcInputs[calls[1]]) :
           /\ i < j
           /\ IsOutput(funcInputs[calls[1]][i]) /\ Owner(funcInputs[calls[1]][i]) = calls[2]
           /\ IsOutput(funcInputs[calls[1]][j]) /\ Owner(funcInputs[calls[1]][j]) = calls[3]
    /\ calls[3] \in InputOwners(funcInputs, calls[2])

\* C14: OnPlaceholdersReplaced only adds to the owned set: after a call the
\* owned set holds the owned set of before; it is the same set when every
\* replaced placeholder was replaced by a Variable that is no Output; and
\* the map and the set of replaced placeholders are as they were handed in.
C14_OnlyAddsToOwned ==
    pc = "replaced" =>
        /\ ownedBefore \subseteq m_allPrimitiveFunctions
        /\ (\A ph \in handed.replacedPlaceholders :
                ~IsOutput(At(handed.placeholderReplacements, ph)))
               => m_allPrimitiveFunctions = ownedBefore
        /\ placeholderReplacements = handed.placeholderReplacements
        /\ replacedPlaceholders = handed.replacedPlaceholders

\* A replacement by an Output whose owner's subgraph does not hold the whole
\* of the owned set of before has been made, and one placeholder was replaced.
C14_Witness ==
    /\ pc = "replaced"
    /\ \E ph \in replacedPlaceholders :
           /\ IsOutput(At(placeholderReplacements, ph))
           /\ ~(ownedBefore \subseteq
                   Collect(funcInputs, Owner(At(placeholderReplacements, ph)), {}))
    /\ ownedBefore # m_allPrimitiveFunctions

\* A replacement of a placeholder by an Input has been made.
C14_WitnessNoOutput ==
    /\ pc = "replaced"
    /\ replacedPlaceholders # {}
    /\ \A ph \in replacedPlaceholders : ~IsOutput(At(placeholderReplacements, ph))

\* f lies on a cycle of g.
OnCycle(g, f) == f \in Closure(g, InputOwners(g, f))

\* C15: on every finite graph, with cycles or without, Traverse started with
\* an empty visited set returns, and it invokes the functor exactly once on
\* every Function reachable from the root and on no other.
C15_TerminatesOnCycles ==
    /\ (pc = "running") ~> (pc = "done")
    /\ [](\A f \in Nodes : Count(calls, f) <= 1)
    /\ [](pc = "done" =>
            \A f \in Nodes :
                Count(calls, f) = IF f \in Reach(funcInputs, rootFunction) THEN 1 ELSE 0)

\* Traverse has returned from a graph in which the root lies on a cycle
\* through another Function.
C15_Witness ==
    /\ pc = "done"
    /\ OnCycle(funcInputs, rootFunction)
    /\ rootFunction \notin InputOwners(funcInputs, rootFunction)
    /\ Len(calls) >= 2

\* Traverse has returned from a Function that consumes its own Output.
C15_WitnessSelfLoop ==
    /\ pc = "done"
    /\ rootFunction \in InputOwners(funcInputs, rootFunction)

=============================================================================
